---- MODULE Spec2Model ----
(***************************************************************************)
(* Model of the image-path history / favorites bookkeeping (src/ui.py,     *)
(* duplicated in src/utility.py) over the JSON settings file, and of the   *)
(* request handler run_request built on it.                                *)
(*                                                                         *)
(* A path string is a sequence of one-character strings.  The settings     *)
(* file is a record: kind says what the file holds ("absent", "corrupt"    *)
(* for content json.load rejects, "nonobject" for valid JSON that is not   *)
(* an object, "object" for a settings document); for a document, hist is   *)
(* image_path_history, fav is favorite_image_paths and maxh is the         *)
(* optional max_history_count (<<>> when the key is missing, <<c>> when    *)
(* it is set to c) and maxg is the optional max_gallery_display, held the  *)
(* same way.  A missing list key and an empty list behave alike            *)
(* (settings.get(key, [])), so both are the empty sequence.                *)
(*                                                                         *)
(* save_settings is modelled with its failure branch (writable = FALSE);   *)
(* the specifications below describe a settings file that can be written.  *)
(***************************************************************************)
EXTENDS Integers, Sequences, FiniteSets, TLC

VARIABLES
    file,      \* content of settings.json
    disk,      \* the image files that exist
    writable,  \* whether settings.json can be written
    last,      \* the last bookkeeping call: operation, argument, file before, raised,
               \* and what it returned when it is a query
    calls,     \* the arguments of the add_to_history calls made so far (SpecQuote)
    pc,        \* SpecConc: where each concurrent call stands
    loc,       \* SpecConc: each concurrent call's operation, argument and local settings
    events,    \* SpecConc: the loads and saves in the order they happened
    req,       \* SpecReq: the run_request call in progress or returned last,
               \* with the files it wrote under the output folder
    form       \* SpecRows: the image-input rows of the form

vars == <<file, disk, writable, last, calls, pc, loc, events, req, form>>

concVars == <<pc, loc, events>>

reqVars == <<req>>

formVars == <<form>>

----------------------------------------------------------------------------
(* Bounds *)

\* most double-quote characters put before / after a path in an input
MaxQuotes == 1
\* configured caps range over -MaxNegativeCap..MaxCap
MaxNegativeCap == 1
MaxCap == 2
\* most image files missing from disk
MaxDeleted == 2

(* Program constants *)

\* settings.get("max_history_count", 300)
DefaultMaxHistory == 300

----------------------------------------------------------------------------
(* Strings *)

Quote == "\""
Space == " "

\* the image files that may exist on disk
Names == {<<"a">>, <<"b">>, <<"c">>}

\* what an input is built around: an image file name, the empty string,
\* a blank string
Cores == Names \cup {<<>>, <<Space>>}

Quotes(k) == [i \in 1..k |-> Quote]

Inputs == {Quotes(l) \o c \o Quotes(r) : l \in 0..MaxQuotes, r \in 0..MaxQuotes, c \in Cores}

CapValues == (0 - MaxNegativeCap)..MaxCap

\* `not path or path.strip() == ""`: empty or whitespace only
IsBlank(s) == \A i \in 1..Len(s) : s[i] = Space

RECURSIVE LStripQuotes(_)
LStripQuotes(s) ==
    IF s # <<>> /\ Head(s) = Quote THEN LStripQuotes(Tail(s)) ELSE s

RECURSIVE RStripQuotes(_)
RStripQuotes(s) ==
    IF s # <<>> /\ s[Len(s)] = Quote THEN RStripQuotes(SubSeq(s, 1, Len(s) - 1)) ELSE s

\* a strip that takes the leading quotes only
StripQuotes_leading(s) == LStripQuotes(s)

\* path.strip('"'): every leading and trailing double quote is removed
StripQuotes(s) == RStripQuotes(LStripQuotes(s))

\* Path(p).exists(): Path("") is the current directory, which exists
PathExists(p, d) == p = <<>> \/ p \in d

----------------------------------------------------------------------------
(* Python list operations *)

Range(s) == {s[i] : i \in 1..Len(s)}

Contains(s, x) == \E i \in 1..Len(s) : s[i] = x

FirstIndex(s, x) == CHOOSE i \in 1..Len(s) : s[i] = x /\ \A j \in 1..(i - 1) : s[j] # x

\* a remove that deletes the first element whatever it is
ListRemove_head(s, x) == Tail(s)

\* list.remove(x): deletes the first occurrence
ListRemove(s, x) ==
    LET i == FirstIndex(s, x) IN SubSeq(s, 1, i - 1) \o SubSeq(s, i + 1, Len(s))

\* s[:n]: the first n elements, for n < 0 all but the last -n
SliceTo(s, n) ==
    IF n >= 0 THEN SubSeq(s, 1, IF n < Len(s) THEN n ELSE Len(s))
    ELSE SubSeq(s, 1, IF Len(s) + n > 0 THEN Len(s) + n ELSE 0)

\* a filter that lets every path through
FilterExisting_all(s, d) == s

\* [p for p in s if Path(p).exists()]
RECURSIVE FilterExisting(_, _)
FilterExisting(s, d) ==
    IF s = <<>> THEN <<>>
    ELSE IF PathExists(Head(s), d) THEN <<Head(s)>> \o FilterExisting(Tail(s), d)
    ELSE FilterExisting(Tail(s), d)

NoDuplicates(s) == \A i, j \in 1..Len(s) : s[i] = s[j] => i = j

----------------------------------------------------------------------------
(* Settings store *)

Defaults == [kind |-> "object", hist |-> <<>>, fav |-> <<>>, maxh |-> <<>>, maxg |-> <<>>]

AbsentFile == [kind |-> "absent", hist |-> <<>>, fav |-> <<>>, maxh |-> <<>>, maxg |-> <<>>]
CorruptFile == [kind |-> "corrupt", hist |-> <<>>, fav |-> <<>>, maxh |-> <<>>, maxg |-> <<>>]
NonObjectFile == [kind |-> "nonobject", hist |-> <<>>, fav |-> <<>>, maxh |-> <<>>, maxg |-> <<>>]

\* a load that ignores the file
load_settings_defaults(f) == [kind |-> "object", hist |-> <<>>, fav |-> <<>>, maxh |-> <<>>, maxg |-> <<>>]

\* load_settings: the parsed content, or the defaults when the file is
\* absent or json.load raises; valid JSON of any type is returned as it is
load_settings(f) ==
    IF f.kind \in {"absent", "corrupt"} THEN Defaults ELSE f

\* settings.get(...) raises AttributeError on a value that is not a dict
IsDict(settings) == settings.kind = "object"

\* save_settings: overwrites the file; a write failure is printed and
\* swallowed, the file keeps its content
save_settings(f, settings, w) == IF w THEN settings ELSE f

\* settings.get("max_history_count", 300)
max_history(settings) ==
    IF settings.maxh = <<>> THEN DefaultMaxHistory ELSE settings.maxh[1]

----------------------------------------------------------------------------
(* History *)

\* an add without the existence check
rejects_add_blank_only(path, d) == IsBlank(path)

\* add_to_history returns before loading: blank argument, or the
\* quote-stripped path does not exist
rejects_add(path, d) == IsBlank(path) \/ ~PathExists(StripQuotes(path), d)

\* an add that does not cut the list at the cap
history_after_add_untruncated(settings, path) ==
    LET history == settings.hist
        removed == IF Contains(history, path) THEN ListRemove(history, path) ELSE history
    IN  <<path>> \o removed

\* an add that puts the path at the end of the list
history_after_add_appended(settings, path) ==
    LET history == settings.hist
        removed == IF Contains(history, path) THEN ListRemove(history, path) ELSE history
    IN  SliceTo(Append(removed, path), max_history(settings))

\* an add that leaves an existing occurrence in the list
history_after_add_keeping(settings, path) ==
    SliceTo(<<path>> \o settings.hist, max_history(settings))

\* add_to_history, from the load to the assignment of the new list
history_after_add(settings, path) ==
    LET history == settings.hist
        removed == IF Contains(history, path) THEN ListRemove(history, path) ELSE history
        inserted == <<path>> \o removed
    IN  SliceTo(inserted, max_history(settings))

NoOp == [op |-> "none", arg |-> <<>>, pre |-> AbsentFile, raised |-> FALSE, ret |-> <<>>]

Done(op, arg, raised) == [op |-> op, arg |-> arg, pre |-> file, raised |-> raised, ret |-> <<>>]

\* a query that returned ret
Answered(op, arg, raised, ret) ==
    [op |-> op, arg |-> arg, pre |-> file, raised |-> raised, ret |-> ret]

\* add_to_history raises when the loaded settings are not a dict
add_to_history_raises(f, path, d) ==
    ~rejects_add(path, d) /\ ~IsDict(load_settings(f))

\* the content of settings.json after add_to_history(path)
file_after_add_to_history(f, path, d, w) ==
    IF rejects_add(path, d) THEN f
    ELSE LET settings == load_settings(f) IN
         IF ~IsDict(settings) THEN f
         ELSE save_settings(f,
                  [settings EXCEPT !.hist = history_after_add(settings, StripQuotes(path))], w)

add_to_history(path) ==
    /\ UNCHANGED <<disk, writable>>
    /\ file' = file_after_add_to_history(file, path, disk, writable)
    /\ last' = Done("add_to_history", path, add_to_history_raises(file, path, disk))

\* get_history_choices
get_history_choices(f, d) == FilterExisting(load_settings(f).hist, d)

----------------------------------------------------------------------------
(* Favorites *)

add_to_favorites(path) ==
    /\ UNCHANGED <<disk, writable>>
    /\ IF rejects_add(path, disk)
       THEN /\ file' = file
            /\ last' = Done("add_to_favorites", path, FALSE)
       ELSE LET settings == load_settings(file)
                p == StripQuotes(path)
            IN
            IF ~IsDict(settings)
            THEN /\ file' = file
                 /\ last' = Done("add_to_favorites", path, TRUE)
            ELSE /\ file' = IF ~Contains(settings.fav, p)
                            THEN save_settings(file,
                                     [settings EXCEPT !.fav = Append(settings.fav, p)], writable)
                            ELSE file
                 /\ last' = Done("add_to_favorites", path, FALSE)

remove_from_favorites(path) ==
    /\ UNCHANGED <<disk, writable>>
    /\ IF IsBlank(path)
       THEN /\ file' = file
            /\ last' = Done("remove_from_favorites", path, FALSE)
       ELSE LET settings == load_settings(file)
                p == StripQuotes(path)
            IN
            IF ~IsDict(settings)
            THEN /\ file' = file
                 /\ last' = Done("remove_from_favorites", path, TRUE)
            ELSE /\ file' = IF Contains(settings.fav, p)
                            THEN save_settings(file,
                                     [settings EXCEPT !.fav = ListRemove(settings.fav, p)], writable)
                            ELSE file
                 /\ last' = Done("remove_from_favorites", path, FALSE)

\* a membership test on the argument as typed
is_favorite_unstripped(f, path) ==
    IF IsBlank(path) THEN FALSE
    ELSE Contains(load_settings(f).fav, path)

\* is_favorite (on a settings value that is not a dict it raises; the
\* operator is used on documents only)
is_favorite(f, path) ==
    IF IsBlank(path) THEN FALSE
    ELSE Contains(load_settings(f).fav, StripQuotes(path))

----------------------------------------------------------------------------
(* Calls running at the same time.  A mutating call reads settings.json    *)
(* once (load_settings) and writes it once (save_settings); nothing holds  *)
(* the file in between, so each call is two steps.                         *)

Procs == {1, 2}

Ops == {"add_to_history", "add_to_favorites", "remove_from_favorites"}

Idle == [op |-> "none", arg |-> <<>>, doc |-> Defaults, raised |-> FALSE, saved |-> FALSE]

ConcIdle ==
    /\ pc = [pr \in Procs |-> "idle"]
    /\ loc = [pr \in Procs |-> Idle]
    /\ events = <<>>

\* the settings a call holds in memory after its in-memory change, or the
\* loaded settings themselves when the call has nothing to save
changed_settings(op, settings, p) ==
    IF op = "add_to_history"
    THEN [settings EXCEPT !.hist = history_after_add(settings, p)]
    ELSE IF op = "add_to_favorites" /\ ~Contains(settings.fav, p)
    THEN [settings EXCEPT !.fav = Append(settings.fav, p)]
    ELSE IF op = "remove_from_favorites" /\ Contains(settings.fav, p)
    THEN [settings EXCEPT !.fav = ListRemove(settings.fav, p)]
    ELSE settings

\* add_to_history always saves; the favorites calls save when they changed
\* the list
saves(op, settings, p) ==
    \/ op = "add_to_history"
    \/ op = "add_to_favorites" /\ ~Contains(settings.fav, p)
    \/ op = "remove_from_favorites" /\ Contains(settings.fav, p)

\* the early returns
returns_early(op, path, d) ==
    IF op = "remove_from_favorites" THEN IsBlank(path) ELSE rejects_add(path, d)

\* a call up to and including its load_settings and in-memory change
Load(pr) ==
    \E op \in Ops, path \in Inputs :
        /\ pc[pr] = "idle"
        /\ LET settings == load_settings(file)
               p == StripQuotes(path)
               rec == [op |-> op, arg |-> path, doc |-> Defaults,
                       raised |-> FALSE, saved |-> FALSE]
           IN
           IF returns_early(op, path, disk)
           THEN /\ pc' = [pc EXCEPT ![pr] = "done"]
                /\ loc' = [loc EXCEPT ![pr] = rec]
                /\ events' = events
           ELSE IF ~IsDict(settings)
           THEN /\ pc' = [pc EXCEPT ![pr] = "done"]
                /\ loc' = [loc EXCEPT ![pr] = [rec EXCEPT !.raised = TRUE]]
                /\ events' = Append(events, <<pr, "load">>)
           ELSE IF ~saves(op, settings, p)
           THEN /\ pc' = [pc EXCEPT ![pr] = "done"]
                /\ loc' = [loc EXCEPT ![pr] = rec]
                /\ events' = Append(events, <<pr, "load">>)
           ELSE /\ pc' = [pc EXCEPT ![pr] = "loaded"]
                /\ loc' = [loc EXCEPT ![pr] =
                               [rec EXCEPT !.doc = changed_settings(op, settings, p)]]
                /\ events' = Append(events, <<pr, "load">>)
        /\ UNCHANGED <<file, disk, writable, last, calls, reqVars, formVars>>

\* the call's save_settings, and its return
Save(pr) ==
    /\ pc[pr] = "loaded"
    /\ file' = save_settings(file, loc[pr].doc, writable)
    /\ pc' = [pc EXCEPT ![pr] = "done"]
    /\ loc' = [loc EXCEPT ![pr].saved = TRUE]
    /\ events' = Append(events, <<pr, "save">>)
    /\ UNCHANGED <<disk, writable, last, calls, reqVars, formVars>>

----------------------------------------------------------------------------
(* run_request.  The handler runs up to its blocking call to the remote    *)
(* API (run_request), and from the answer to its return (request_answered).*)
(* The files of one request are named by the timestamp of the call and the *)
(* id of the response.                                                     *)

\* most images in one response
MaxImages == 2

\* prompt, API key
Texts == {<<>>, <<Space>>, <<"t">>}

Folders == {<<>>, <<"o">>}

Models == {"google/gemini-3-pro-image-preview", "black-forest-labs/flux.2-pro"}

\* what an image-path field may hold
PathEntries == Names \cup {<<>>, <<Quote, "a", Quote>>, <<Quote, Quote>>}

\* the image-path fields of one request: one or two of them are filled
PathLists == {<<x>> : x \in PathEntries} \cup {<<x, y>> : x, y \in PathEntries}

\* HTTP status codes the remote API may answer with
Statuses == {200, 201, 404, 500}

\* the "id" field of a response, as the characters of a file name: one
\* without a dot and one with a dot in it
Ids == {<<"i", "d">>, <<"i", ".", "d">>}

\* response bodies: not JSON, JSON without choices, or JSON whose first
\* choice carries n images, the last of which may be undecodable
Bodies ==
    {[json |-> FALSE, choices |-> FALSE, images |-> 0, bad |-> FALSE, id |-> <<"i", "d">>],
     [json |-> TRUE, choices |-> FALSE, images |-> 0, bad |-> FALSE, id |-> <<"i", "d">>]}
    \cup {[json |-> TRUE, choices |-> TRUE, images |-> n, bad |-> b, id |-> i] :
              n \in 0..MaxImages, b \in BOOLEAN, i \in Ids}

NoReq == [phase |-> "idle", paths |-> <<>>, folder |-> <<>>, msg |-> "none", status |-> 0,
          payloadNull |-> TRUE, sent |-> FALSE, wrote |-> {}, pre |-> AbsentFile,
          keyBlank |-> FALSE, promptBlank |-> FALSE, images |-> 0]

ReqIdle == req = NoReq

\* [p.strip('"') for p in image_paths if p and p.strip() != ""]
RECURSIVE valid_image_paths(_)
valid_image_paths(paths) ==
    IF paths = <<>> THEN <<>>
    ELSE IF IsBlank(Head(paths)) THEN valid_image_paths(Tail(paths))
    ELSE <<StripQuotes(Head(paths))>> \o valid_image_paths(Tail(paths))

\* for path in valid_image_paths: add_to_history(path); the first call that
\* raises ends the loop
RECURSIVE add_all_to_history(_, _, _, _)
add_all_to_history(f, paths, d, w) ==
    IF paths = <<>> THEN [file |-> f, raised |-> FALSE]
    ELSE IF add_to_history_raises(f, Head(paths), d) THEN [file |-> f, raised |-> TRUE]
    ELSE add_all_to_history(file_after_add_to_history(f, Head(paths), d, w), Tail(paths), d, w)

\* encode_image_to_base64 opens the file: the empty path cannot be opened
encode_raises(paths) == Contains(paths, <<>>)

\* a check that takes only server errors for errors
is_error_status_5xx(status) == status >= 500

\* `if response.status_code != 200`
is_error_status(status) == status # 200

\* file names are sequences of characters and of the fixed pieces the code
\* puts between them
Digits == <<"0", "1", "2", "3", "4", "5", "6", "7", "8", "9">>

\* f"{yyyymmddhhmmss}_{id}": the timestamp of the call, then the id
Stem(id) == <<"ts", "_">> \o id

\* Path.with_suffix: the name up to its last dot (a dot that starts the name
\* does not count) followed by the new suffix; without a dot the suffix is
\* appended
with_suffix(name, ext) ==
    LET dots == {i \in 2..Len(name) : name[i] = "."} IN
    IF dots = {} THEN name \o <<".", ext>>
    ELSE SubSeq(name, 1, (CHOOSE i \in dots : \A j \in dots : j <= i) - 1) \o <<".", ext>>

\* save_base64_url_to_file for image idx of the response: the path it is
\* given, with the suffix of the detected format
image_file(id, idx) == with_suffix(Stem(id) \o <<"_", Digits[idx + 1]>>, "png")

response_file(id) == Stem(id) \o <<"_response.json">>

prompt_info_file(id) == Stem(id) \o <<"_prompt_info.yaml">>

\* what save_response_images has written when it returns or raises:
\* response.json() and the lookup of the first choice come first, then the
\* folder is made, then the response file, the images in order, and last the
\* prompt-info file
save_response_images(out_ok, body) ==
    IF ~body.json \/ ~body.choices \/ ~out_ok THEN [wrote |-> {}, raised |-> TRUE]
    ELSE LET good == IF body.bad /\ body.images > 0 THEN body.images - 1 ELSE body.images
             images == {image_file(body.id, i) : i \in 0..(good - 1)}
         IN  IF good < body.images
             THEN [wrote |-> {response_file(body.id)} \cup images, raised |-> TRUE]
             ELSE [wrote |-> {response_file(body.id), prompt_info_file(body.id)} \cup images,
                   raised |-> FALSE]

\* every return of run_request calls get_history_choices first, which
\* raises when the loaded settings are not a dict
Return(r, f) ==
    IF IsDict(load_settings(f)) THEN [r EXCEPT !.phase = "returned"]
    ELSE [r EXCEPT !.phase = "raised", !.msg = "none"]

\* run_request, from its call to the request sent to the remote API
run_request(folder, api_key, model, prompt, image_paths) ==
    LET valid == valid_image_paths(image_paths)
        r == [NoReq EXCEPT !.paths = valid, !.folder = folder, !.pre = file,
                           !.keyBlank = IsBlank(api_key), !.promptBlank = IsBlank(prompt)]
        added == add_all_to_history(file, valid, disk, writable)
    IN
    /\ req.phase # "waiting"
    /\ UNCHANGED <<disk, writable, last, calls, concVars, formVars>>
    /\ IF valid = <<>>
       THEN file' = file /\ req' = Return([r EXCEPT !.msg = "no_image_path"], file)
       ELSE IF \E i \in 1..Len(valid) : ~PathExists(valid[i], disk)
       THEN file' = file /\ req' = Return([r EXCEPT !.msg = "path_missing"], file)
       ELSE IF IsBlank(prompt)
       THEN file' = file /\ req' = Return([r EXCEPT !.msg = "no_prompt"], file)
       ELSE IF IsBlank(api_key)
       THEN file' = file /\ req' = Return([r EXCEPT !.msg = "no_api_key"], file)
       ELSE /\ file' = added.file
            /\ IF added.raised
               THEN req' = [r EXCEPT !.phase = "raised"]
               ELSE IF encode_raises(valid)
               THEN req' = Return([r EXCEPT !.msg = "exception"], added.file)
               ELSE req' = [r EXCEPT !.phase = "waiting", !.sent = TRUE]

\* run_request, from the remote API's answer (or the exception of the
\* call) to its return
request_answered(failed, status, out_ok, body) ==
    /\ req.phase = "waiting"
    /\ UNCHANGED <<file, disk, writable, last, calls, concVars, formVars>>
    /\ IF failed
       THEN req' = Return([req EXCEPT !.msg = "exception"], file)
       ELSE IF is_error_status(status)
       THEN req' = Return([req EXCEPT !.msg = "status", !.status = status], file)
       ELSE LET saved == save_response_images(out_ok, body) IN
            req' = Return([req EXCEPT
                      !.status = status,
                      !.wrote = saved.wrote,
                      !.images = IF body.json /\ body.choices THEN body.images ELSE 0,
                      !.msg = IF saved.raised THEN "exception"
                              ELSE IF body.images = 0 THEN "no_images" ELSE "success",
                      !.payloadNull = saved.raised \/ body.images = 0], file)

----------------------------------------------------------------------------
(* Choices, gallery and path check.  Path(p).name of a path without a      *)
(* directory part, as the paths here are, is p.                            *)

\* settings.get("max_gallery_display", 50)
DefaultMaxGalleryDisplay == 50

\* files that exist without being images: Image.open raises on them
NotImages == {<<"b">>}

\* Image.open(path) succeeds (the empty path, the current directory, cannot
\* be opened either)
can_open(p, d) == p \in d /\ p \notin NotImages

max_gallery_display(settings) ==
    IF settings.maxg = <<>> THEN DefaultMaxGalleryDisplay ELSE settings.maxg[1]

\* get_favorites_choices
get_favorites_choices(f, d) == FilterExisting(load_settings(f).fav, d)

\* "★ " in front of the name of a favorite
StarMarker == <<"star", Space>>

\* a loop that ends at the first entry it cannot open
RECURSIVE gallery_items_stop(_, _, _)
gallery_items_stop(paths, favorites, d) ==
    IF paths = <<>> THEN <<>>
    ELSE LET path == Head(paths) IN
         IF PathExists(path, d) /\ can_open(path, d)
         THEN <<[image |-> path,
                 caption |-> (IF Contains(favorites, path) THEN StarMarker ELSE <<>>) \o path]>>
              \o gallery_items_stop(Tail(paths), favorites, d)
         ELSE <<>>

\* the loop of get_history_gallery: an (image, caption) pair for every path
\* that exists and opens, `continue` on the others
RECURSIVE gallery_items(_, _, _)
gallery_items(paths, favorites, d) ==
    IF paths = <<>> THEN <<>>
    ELSE LET path == Head(paths) IN
         IF PathExists(path, d) /\ can_open(path, d)
         THEN <<[image |-> path,
                 caption |-> (IF Contains(favorites, path) THEN StarMarker ELSE <<>>) \o path]>>
              \o gallery_items(Tail(paths), favorites, d)
         ELSE gallery_items(Tail(paths), favorites, d)

FilterModes == {"all", "favorites"}

\* the list a filter mode shows
view_paths(f, d, filter_mode) ==
    IF filter_mode = "favorites" THEN get_favorites_choices(f, d)
    ELSE get_history_choices(f, d)

\* get_history_gallery (it raises at settings.get when the loaded settings
\* are not a dict; the operator is used on documents only)
get_history_gallery(f, d, filter_mode) ==
    LET settings == load_settings(f)
        history_paths == view_paths(f, d, filter_mode)
    IN  gallery_items(SliceTo(history_paths, max_gallery_display(settings)), settings.fav, d)

\* select_from_gallery: the path put into the image-path field
select_from_gallery(f, d, index, filter_mode) ==
    LET history_paths == view_paths(f, d, filter_mode) IN
    IF index < Len(history_paths) THEN history_paths[index + 1] ELSE <<>>

Warning(path) == <<"warning">> \o path

\* check_image_path: `not path or path.strip() or path.strip('"') == ""`
\* returns "" at once; path.strip() is true for every path that is not blank
check_image_path(path, d) ==
    IF path = <<>> \/ ~IsBlank(path) \/ StripQuotes(path) = <<>> THEN <<>>
    ELSE IF ~PathExists(path, d) THEN Warning(path)
    ELSE <<>>

----------------------------------------------------------------------------
(* The image-input rows of the form: ten rows are built, visible_count of  *)
(* them are shown.                                                         *)

\* range(10): the rows the form is built with
MaxRows == 10

\* most image paths in a prompt_info.yaml
MaxPromptPaths == 11

min(a, b) == IF a < b THEN a ELSE b

max(a, b) == IF a > b THEN a ELSE b

\* the form as create_ui builds it: one row shown, no path filled in
NoForm == [visible_count |-> 1, rows |-> {0}, filled |-> 0]

FormIdle == form = NoForm

\* [gr.Row(visible=(i < new_count)) for i in range(10)]
rows_visible(new_count) == {i \in 0..(MaxRows - 1) : i < new_count}

\* new_count of hide_image_row
hide_count(current_count) == max(current_count - 1, 1)

\* new_count of show_image_row
show_count(current_count) == min(current_count + 1, MaxRows)

show_image_row(current_count) ==
    LET new_count == show_count(current_count) IN
    /\ form' = [form EXCEPT !.visible_count = new_count, !.rows = rows_visible(new_count)]
    /\ UNCHANGED <<file, disk, writable, last, calls, concVars, reqVars>>

hide_image_row(current_count) ==
    LET new_count == hide_count(current_count) IN
    /\ form' = [form EXCEPT !.visible_count = new_count, !.rows = rows_visible(new_count)]
    /\ UNCHANGED <<file, disk, writable, last, calls, concVars, reqVars>>

\* what the prompt-info upload hands over: nothing (the file was cleared), a
\* file that cannot be read as a mapping, or a mapping whose image_paths has
\* n entries; openable says whether every preview of an existing path opens
PromptFiles ==
    {[kind |-> "none", paths |-> 0, openable |-> TRUE],
     [kind |-> "unreadable", paths |-> 0, openable |-> TRUE]}
    \cup {[kind |-> "yaml", paths |-> n, openable |-> o] :
              n \in 0..MaxPromptPaths, o \in BOOLEAN}

\* load_prompt_info raises inside its try block
load_prompt_info_raises(pfile) ==
    pfile.kind = "unreadable" \/ (pfile.kind = "yaml" /\ pfile.paths > 0 /\ ~pfile.openable)

load_prompt_info(pfile) ==
    /\ UNCHANGED <<file, disk, writable, last, calls, concVars, reqVars>>
    /\ IF pfile.kind = "none" \/ load_prompt_info_raises(pfile)
       THEN form' = [visible_count |-> 1, rows |-> rows_visible(1), filled |-> 0]
       ELSE LET num_images == min(pfile.paths, MaxRows) IN
            form' = [visible_count |-> num_images, rows |-> rows_visible(num_images),
                     filled |-> num_images]

----------------------------------------------------------------------------
(* Environment *)

\* the user sets max_history_count in settings.json by hand
EditMaxHistory ==
    \E c \in CapValues :
        /\ file.kind \in {"absent", "object"}
        /\ file' = [load_settings(file) EXCEPT !.maxh = <<c>>]
        /\ last' = NoOp
        /\ UNCHANGED <<disk, writable, calls, concVars, reqVars, formVars>>

\* the user replaces settings.json by something else, or deletes it, while
\* no request is running
HandEdit ==
    \E f \in {AbsentFile, CorruptFile, NonObjectFile} :
        /\ file # f
        /\ req.phase # "waiting"
        /\ file' = f
        /\ last' = NoOp
        /\ req' = NoReq
        /\ UNCHANGED <<disk, writable, calls, concVars, formVars>>

DeleteFile ==
    \E p \in disk :
        /\ Cardinality(Names \ disk) < MaxDeleted
        /\ disk' = disk \ {p}
        /\ last' = NoOp
        /\ UNCHANGED <<file, writable, calls, concVars, reqVars, formVars>>

----------------------------------------------------------------------------
(* The history under hand edits of the settings file *)

AddToHistory == \E path \in Inputs : add_to_history(path) /\ UNCHANGED <<calls, concVars, reqVars, formVars>>

Init ==
    /\ file = AbsentFile
    /\ disk = Names
    /\ writable = TRUE
    /\ last = NoOp
    /\ calls = <<>>
    /\ ConcIdle
    /\ ReqIdle
    /\ FormIdle

Next == AddToHistory \/ EditMaxHistory \/ HandEdit \/ DeleteFile

Spec == Init /\ [][Next]_vars

----------------------------------------------------------------------------
(* History and favorites calls from an empty store *)

AddToFavorites == \E path \in Inputs : add_to_favorites(path) /\ UNCHANGED <<calls, concVars, reqVars, formVars>>

RemoveFromFavorites == \E path \in Inputs : remove_from_favorites(path) /\ UNCHANGED <<calls, concVars, reqVars, formVars>>

NextFav == AddToHistory \/ AddToFavorites \/ RemoveFromFavorites \/ DeleteFile

\* one of the image files never exists
InitFav ==
    /\ file = AbsentFile
    /\ disk = Names \ {<<"c">>}
    /\ writable = TRUE
    /\ last = NoOp
    /\ calls = <<>>
    /\ ConcIdle
    /\ ReqIdle
    /\ FormIdle

SpecFav == InitFav /\ [][NextFav]_vars

----------------------------------------------------------------------------
(* Two add_to_history calls from an empty store *)

MaxCalls == 2

AddToHistoryLogged ==
    /\ Len(calls) < MaxCalls
    /\ \E path \in Inputs : add_to_history(path) /\ calls' = Append(calls, path)
    /\ UNCHANGED <<concVars, reqVars, formVars>>

NextQuote == AddToHistoryLogged

SpecQuote == Init /\ [][NextQuote]_vars

----------------------------------------------------------------------------
(* What the last call was *)

LastPath == StripQuotes(last.arg)

\* the last call was op, did not raise, and went past the early returns
\* of an add
Stored(op) == last.op = op /\ ~last.raised /\ ~rejects_add(last.arg, disk)

PreSettings == load_settings(last.pre)

PreCap == max_history(PreSettings)

\* the stored list s without the entries equal to x
Without(s, x) == SelectSeq(s, LAMBDA e : e # x)

IsPrefix(s, t) == Len(s) <= Len(t) /\ \A i \in 1..Len(s) : s[i] = t[i]

Min(a, b) == IF a < b THEN a ELSE b

----------------------------------------------------------------------------
(* C1 *)

\* C1 as stated: for every configured cap, after an add_to_history call
\* returns the stored history has at most cap entries.
C1_Original ==
    (last.op = "add_to_history" /\ ~last.raised /\ file.kind = "object")
        => Len(file.hist) <= max_history(file)

\* C1, amended: for every configured cap >= 0, after an add_to_history call
\* that got past its early returns (non-blank argument, existing path) the
\* stored history has at most cap entries, and it is the most-recently-used
\* list (the added path, then the former entries in their order) cut at its
\* tail: the entries dropped are the oldest ones.
C1_CapHolds ==
    (Stored("add_to_history") /\ PreCap >= 0)
        => LET full == <<LastPath>> \o Without(PreSettings.hist, LastPath) IN
           /\ Len(file.hist) <= PreCap
           /\ Len(file.hist) = Min(PreCap, Len(full))
           /\ IsPrefix(file.hist, full)

\* an add of a new path to a list already at its cap evicted the oldest entry
C1_Witness ==
    /\ Stored("add_to_history")
    /\ PreCap = 2
    /\ Len(PreSettings.hist) = 2
    /\ ~Contains(PreSettings.hist, LastPath)
    /\ file.hist = <<LastPath, PreSettings.hist[1]>>

----------------------------------------------------------------------------
(* C2 *)

\* C2 as stated: for every path p that exists on disk, right after
\* add_to_history(p) returns, get_history_choices() has p at index 0,
\* whatever the stored settings document was.
C2_Original ==
    (last.op = "add_to_history" /\ ~last.raised /\ last.arg \in disk)
        => LET choices == get_history_choices(file, disk) IN
           choices # <<>> /\ choices[1] = last.arg

\* C2, amended: the same when the configured cap is at least 1 (or not
\* configured); from an empty store the result is exactly [p].
C2_FrontOfChoices ==
    (Stored("add_to_history") /\ PreCap >= 1)
        => LET choices == get_history_choices(file, disk) IN
           /\ choices # <<>>
           /\ choices[1] = LastPath
           /\ last.pre.kind = "absent" => choices = <<LastPath>>

\* a path stored further back, behind an entry whose file is gone, was
\* re-added and is now the first choice
C2_Witness ==
    /\ Stored("add_to_history")
    /\ last.arg \in disk
    /\ Len(PreSettings.hist) >= 2
    /\ PreSettings.hist[1] \notin disk
    /\ PreSettings.hist[2] = last.arg
    /\ get_history_choices(file, disk)[1] = last.arg
    /\ Len(get_history_choices(file, disk)) < Len(file.hist)

----------------------------------------------------------------------------
(* C3 *)

\* C3 as stated: if p is already in the stored history, add_to_history(p)
\* leaves the length unchanged, puts p at index 0 and keeps the relative
\* order of the other entries.
C3_Original ==
    (last.op = "add_to_history" /\ ~last.raised /\ ~IsBlank(last.arg)
            /\ Contains(PreSettings.hist, LastPath))
        => /\ Len(file.hist) = Len(PreSettings.hist)
           /\ file.hist[1] = LastPath
           /\ Tail(file.hist) = Without(PreSettings.hist, LastPath)

\* C3, amended: if p is already in the stored history and exists on disk,
\* add_to_history(p) does not lengthen the history (the length is unchanged
\* when the stored list is within the cap, otherwise the list is cut to the
\* cap), keeps the other entries that remain in their relative order, and
\* puts p at index 0 when the cap is at least 1.
C3_ReAdd ==
    (Stored("add_to_history") /\ Contains(PreSettings.hist, LastPath))
        => /\ Len(file.hist) <= Len(PreSettings.hist)
           /\ (PreCap >= 0 /\ Len(PreSettings.hist) <= PreCap)
                  => Len(file.hist) = Len(PreSettings.hist)
           /\ PreCap >= 1 => file.hist[1] = LastPath
           /\ IsPrefix(Without(file.hist, LastPath), Without(PreSettings.hist, LastPath))
           /\ Len(Without(file.hist, LastPath)) >= Len(file.hist) - 1

\* the last of three stored entries was re-added and moved to the front
C3_Witness ==
    /\ Stored("add_to_history")
    /\ Len(PreSettings.hist) = 3
    /\ PreSettings.hist[3] = LastPath
    /\ file.hist = <<LastPath, PreSettings.hist[1], PreSettings.hist[2]>>

----------------------------------------------------------------------------
(* C8 *)

\* C8: load_settings never raises and every operation built on it proceeds
\* on a usable document: what load_settings returns is a settings document,
\* and no bookkeeping call raises.
C8_UsableDocument == IsDict(load_settings(file)) /\ ~last.raised

----------------------------------------------------------------------------
(* C4 *)

\* C4: starting from an empty settings store, after any sequence of
\* add_to_history, add_to_favorites and remove_from_favorites calls the stored
\* image_path_history contains no path more than once.
C4_NoDuplicates == NoDuplicates(file.hist)

\* a path already stored behind another entry was added again
C4_Witness ==
    /\ Stored("add_to_history")
    /\ Len(PreSettings.hist) >= 2
    /\ PreSettings.hist[2] = LastPath
    /\ Len(file.hist) = Len(PreSettings.hist)
    /\ file.fav # <<>>

----------------------------------------------------------------------------
(* C5 *)

\* C5 as stated: for every path p, is_favorite(p) right after
\* add_to_favorites(p) is true, and right after remove_from_favorites(p) is
\* false.
C5_Original ==
    /\ (last.op = "add_to_favorites" /\ ~last.raised) => is_favorite(file, last.arg)
    /\ (last.op = "remove_from_favorites" /\ ~last.raised) => ~is_favorite(file, last.arg)

\* C5, amended: for every non-blank path p that exists on disk (after its
\* enclosing quotes are stripped), is_favorite(p) right after
\* add_to_favorites(p) is true; for every path p, is_favorite(p) right after
\* remove_from_favorites(p) is false.
C5_FavoriteRoundTrip ==
    /\ Stored("add_to_favorites") => is_favorite(file, last.arg)
    /\ (last.op = "remove_from_favorites" /\ ~last.raised) => ~is_favorite(file, last.arg)

\* a quoted path was made a favorite next to another one, and is_favorite
\* of the quoted path is true
C5_Witness ==
    /\ Stored("add_to_favorites")
    /\ ~Contains(PreSettings.fav, LastPath)
    /\ PreSettings.fav # <<>>
    /\ last.arg # LastPath
    /\ is_favorite(file, last.arg)

----------------------------------------------------------------------------
(* C6 *)

\* C6: when the path (after its enclosing quotes are stripped) does not exist
\* on disk, add_to_history and add_to_favorites leave the stored settings,
\* image_path_history and favorite_image_paths included, exactly as they
\* were.
C6_NonexistentIsNoOp ==
    (last.op \in {"add_to_history", "add_to_favorites"}
            /\ ~PathExists(LastPath, disk))
        => file = last.pre

\* an add of a path that is stored but whose file is gone, to a store where
\* it is not at the front
C6_Witness ==
    /\ last.op \in {"add_to_history", "add_to_favorites"}
    /\ ~PathExists(LastPath, disk)
    /\ ~IsBlank(last.arg)
    /\ Len(file.hist) >= 2
    /\ file.hist[2] = LastPath
    /\ file.fav # <<>>

----------------------------------------------------------------------------
(* C7 *)

\* p wrapped in double quotes
Quoted(p) == <<Quote>> \o p \o <<Quote>>

\* every call so far had the existing file p as its argument, plain or
\* wrapped in double quotes
SameFile(p) ==
    /\ p \in disk
    /\ calls # <<>>
    /\ \A i \in 1..Len(calls) : calls[i] \in {p, Quoted(p)}

\* C7: from an empty store, add_to_history of an existing file path p wrapped
\* in double quotes and add_to_history of p without quotes yield the same
\* stored history: after one of them, or both in either order, the history
\* is exactly the one entry p, unquoted.
C7_QuotedSameEntry ==
    \A p \in Names : SameFile(p) => file.hist = <<p>>

\* the quoted form was added after the plain one, or the other way round
C7_Witness ==
    \E p \in Names :
        /\ SameFile(p)
        /\ Len(calls) = 2
        /\ calls[1] # calls[2]
        /\ p \in {calls[1], calls[2]}
        /\ Quoted(p) \in {calls[1], calls[2]}
        /\ file.hist = <<p>>

----------------------------------------------------------------------------
(* Two calls at the same time *)

LoadStep == \E pr \in Procs : Load(pr)

SaveStep == \E pr \in Procs : Save(pr)

NextConc == LoadStep \/ SaveStep

\* an empty store, or one with a history entry and a favorite
InitConc ==
    /\ file \in {AbsentFile, [Defaults EXCEPT !.hist = <<<<"a">>>>, !.fav = <<<<"a">>>>]}
    /\ disk = Names
    /\ writable = TRUE
    /\ last = NoOp
    /\ calls = <<>>
    /\ ConcIdle
    /\ ReqIdle
    /\ FormIdle

SpecConc == InitConc /\ [][NextConc]_vars

----------------------------------------------------------------------------
(* C9 *)

Pos(pr, step) == CHOOSE i \in 1..Len(events) : events[i] = <<pr, step>>

BothSaved == \A pr \in Procs : pc[pr] = "done" /\ loc[pr].saved

\* pr ran first and had returned when the other call started
RanBefore(pr, qr) == Pos(pr, "save") < Pos(qr, "load")

\* qr loaded before pr saved, and saved after it
Overwrote(qr, pr) ==
    /\ Pos(qr, "load") < Pos(pr, "save")
    /\ Pos(pr, "save") < Pos(qr, "save")

\* the list a call changes, and the path it changes it for
Target(pr) ==
    <<IF loc[pr].op = "add_to_history" THEN "hist" ELSE "fav", StripQuotes(loc[pr].arg)>>

\* the call's change is in the stored document
Kept(pr) ==
    LET p == StripQuotes(loc[pr].arg) IN
    IF loc[pr].op = "add_to_history" THEN Contains(file.hist, p)
    ELSE IF loc[pr].op = "add_to_favorites" THEN Contains(file.fav, p)
    ELSE ~Contains(file.fav, p)

\* C9: of two mutating calls with different targets that both saved, run one
\* after the other, both changes are in the stored document; however they
\* interleave, the change of the call that saved last is stored and neither
\* call reports an error.
C9_SerialKeepsBoth ==
    BothSaved =>
        /\ \A pr \in Procs : ~loc[pr].raised
        /\ \A pr, qr \in Procs :
              (pr # qr /\ Pos(pr, "save") < Pos(qr, "save")) => Kept(qr)
        /\ \A pr, qr \in Procs :
              (pr # qr /\ RanBefore(pr, qr) /\ Target(pr) # Target(qr))
                  => Kept(pr) /\ Kept(qr)

\* C9, the race: both calls loaded before either saved, the later save
\* overwrote the earlier one, and the earlier call's change is missing from
\* the stored document although it returned without an error.
C9_Witness ==
    /\ BothSaved
    /\ \E pr, qr \in Procs :
          /\ pr # qr
          /\ Overwrote(qr, pr)
          /\ Pos(qr, "load") < Pos(pr, "save")
          /\ Target(pr)[2] # Target(qr)[2]
          /\ ~Kept(pr)
          /\ Kept(qr)
          /\ ~loc[pr].raised

----------------------------------------------------------------------------
(* Requests *)

RunRequest ==
    \E folder \in Folders, api_key \in Texts, model \in Models, prompt \in Texts,
       image_paths \in PathLists :
        run_request(folder, api_key, model, prompt, image_paths)

RequestAnswered ==
    \E failed \in BOOLEAN, status \in Statuses, out_ok \in BOOLEAN, body \in Bodies :
        request_answered(failed, status, out_ok, body)

NextReq == RunRequest \/ RequestAnswered \/ HandEdit

SpecReq == InitFav /\ [][NextReq]_vars

----------------------------------------------------------------------------
(* C10 *)

NonSuccessStatus(status) == status < 200 \/ status > 299

\* the remote API answered the last request with a status outside 200..299
AnsweredWithError ==
    req.phase = "returned" /\ req.sent /\ req.status # 0 /\ NonSuccessStatus(req.status)

\* C10 as stated: when the remote API answers with a non-2xx status,
\* run_request returns the status message, no file is written and the stored
\* settings document is the same as before the request.
C10_Original ==
    AnsweredWithError
        => /\ req.msg = "status"
           /\ req.payloadNull
           /\ req.wrote = {}
           /\ file = req.pre

\* C10, amended: when the remote API answers with a non-2xx status,
\* run_request returns the status message with a null image payload and no
\* response, image or prompt-info file is written; the stored settings
\* document differs from the one before the request only in
\* image_path_history, to which the request's existing image paths were added
\* before the call (the last of them is at index 0, the entries that were
\* stored before keep their order).
C10_ErrorStatus ==
    AnsweredWithError
        => LET before == load_settings(req.pre)
               named(e) == Contains(req.paths, e)
           IN
           /\ req.msg = "status"
           /\ req.payloadNull
           /\ req.wrote = {}
           /\ file.kind = "object"
           /\ file.fav = before.fav
           /\ file.maxh = before.maxh
           /\ file.hist[1] = req.paths[Len(req.paths)]
           /\ Range(file.hist) = Range(before.hist) \cup Range(req.paths)
           /\ SelectSeq(file.hist, LAMBDA e : ~named(e))
                  = SelectSeq(before.hist, LAMBDA e : ~named(e))

\* a request answered with an error status left a new history entry behind
\* and wrote no file
C10_Witness ==
    /\ AnsweredWithError
    /\ req.msg = "status"
    /\ req.wrote = {}
    /\ req.pre.kind = "object"
    /\ Len(file.hist) > Len(req.pre.hist)
    /\ req.pre.hist # <<>>

----------------------------------------------------------------------------
(* C11 *)

\* run_request has been called and has not been wiped by a later hand edit
Requested == req.phase # "idle"

ErrorMessages == {"no_image_path", "path_missing", "no_prompt", "no_api_key", "status", "exception"}

\* run_request returned an error message and a null image payload
ReturnedError == req.phase = "returned" /\ req.msg \in ErrorMessages /\ req.payloadNull

\* C11: when the API key is blank or the output folder is blank, run_request
\* returns an error message and no request is sent to the remote API.
C11_ConfigErrorsAbort ==
    (Requested /\ (req.keyBlank \/ IsBlank(req.folder)))
        => ReturnedError /\ ~req.sent

----------------------------------------------------------------------------
(* C12 *)

\* the prompt of the request was blank, or no non-blank image path was given,
\* or a given image path does not exist
BadInput ==
    \/ req.promptBlank
    \/ req.paths = <<>>
    \/ \E i \in 1..Len(req.paths) : ~PathExists(req.paths[i], disk)

\* C12: when the prompt is blank, or no non-blank image path is given, or a
\* given image path does not exist, run_request returns an error message
\* with a null image payload and no request is sent to the remote API.
C12_InputErrorsAbort ==
    (Requested /\ BadInput) => ReturnedError /\ ~req.sent

----------------------------------------------------------------------------
(* C13 *)

\* save_response_images ran on a response whose first choice carries
\* req.images decodable images, with a writable output folder
SavedResponse == Requested /\ req.msg \in {"success", "no_images"}

\* C13: for a response whose first choice carries n >= 0 images,
\* save_response_images writes exactly one response file, one prompt-info
\* file and n image files with the indices 0..n-1, all sharing one stem, and
\* does not raise when n = 0.
C13_FilesOfOneResponse ==
    SavedResponse
        => \E id \in Ids :
              LET stem == Stem(id)
                  images == {stem \o <<"_", Digits[i + 1], ".", "png">> : i \in 0..(req.images - 1)}
              IN  /\ req.wrote = {stem \o <<"_response.json">>, stem \o <<"_prompt_info.yaml">>}
                                      \cup images
                  /\ Cardinality(req.wrote) = req.images + 2

----------------------------------------------------------------------------
(* C14 *)

\* C14: whatever the inputs, the stored settings, the filesystem and the
\* remote API do, run_request returns: no exception escapes it, and when it
\* does not succeed it returns a message with a null image payload.
C14_AlwaysReturns ==
    /\ req.phase # "raised"
    /\ (req.phase = "returned" /\ req.msg # "success") => req.payloadNull

----------------------------------------------------------------------------
(* The views of the stored lists: choices, gallery, selection *)

\* what is typed into an image-path field
ViewInputs == Names \cup {<<Quote, Quote>>, <<Space>>}

ViewAddToHistory ==
    \E path \in ViewInputs : add_to_history(path) /\ UNCHANGED <<calls, concVars, reqVars, formVars>>

ViewAddToFavorites ==
    \E path \in ViewInputs : add_to_favorites(path) /\ UNCHANGED <<calls, concVars, reqVars, formVars>>

\* the user sets max_gallery_display in settings.json by hand
EditMaxGallery ==
    \E c \in CapValues :
        /\ file.kind \in {"absent", "object"}
        /\ file' = [load_settings(file) EXCEPT !.maxg = <<c>>]
        /\ last' = NoOp
        /\ UNCHANGED <<disk, writable, calls, concVars, reqVars, formVars>>

\* the record of a query on the settings: it raises at settings.get when
\* the loaded settings are not a dict
Asked(op, arg, ret) ==
    IF IsDict(load_settings(file)) THEN Answered(op, arg, FALSE, ret)
    ELSE Answered(op, arg, TRUE, <<>>)

\* the queries write nothing
GetHistoryChoices ==
    /\ last' = Asked("get_history_choices", <<>>, get_history_choices(file, disk))
    /\ UNCHANGED <<file, disk, writable, calls, concVars, reqVars, formVars>>

GetFavoritesChoices ==
    /\ last' = Asked("get_favorites_choices", <<>>, get_favorites_choices(file, disk))
    /\ UNCHANGED <<file, disk, writable, calls, concVars, reqVars, formVars>>

GetHistoryGallery ==
    \E filter_mode \in FilterModes :
        /\ last' = Asked("get_history_gallery", [mode |-> filter_mode, index |-> 0],
                         get_history_gallery(file, disk, filter_mode))
        /\ UNCHANGED <<file, disk, writable, calls, concVars, reqVars, formVars>>

\* a click on position index of the gallery shown in filter_mode
SelectFromGallery ==
    \E filter_mode \in FilterModes, index \in 0..(Cardinality(ViewInputs) - 1) :
        /\ last' = Asked("select_from_gallery", [mode |-> filter_mode, index |-> index],
                         select_from_gallery(file, disk, index, filter_mode))
        /\ UNCHANGED <<file, disk, writable, calls, concVars, reqVars, formVars>>

NextView ==
    \/ ViewAddToHistory
    \/ ViewAddToFavorites
    \/ EditMaxGallery
    \/ HandEdit
    \/ DeleteFile
    \/ GetHistoryChoices
    \/ GetFavoritesChoices
    \/ GetHistoryGallery
    \/ SelectFromGallery

SpecView == InitFav /\ [][NextView]_vars

----------------------------------------------------------------------------
(* C15 *)

\* the list stored under a key when the query was made
StoredList(op) ==
    IF op = "get_favorites_choices" THEN load_settings(last.pre).fav
    ELSE load_settings(last.pre).hist

ChoicesReturned(op) == last.op = op /\ ~last.raised

\* C15: get_history_choices() and get_favorites_choices() return the stored
\* list restricted to the paths that exist on disk, in stored order, and
\* leave the stored settings document unchanged: paths that no longer exist
\* stay in the stored list.
C15_ChoicesAreExistingStored ==
    \A op \in {"get_history_choices", "get_favorites_choices"} :
        ChoicesReturned(op)
            => /\ last.ret = SelectSeq(StoredList(op), LAMBDA p : p = <<>> \/ p \in disk)
               /\ file = last.pre

\* a query answered with less than the stored list, which still holds the
\* path that is gone
C15_Witness ==
    /\ ChoicesReturned("get_history_choices")
    /\ file.kind = "object"
    /\ \E i \in 1..Len(file.hist) : file.hist[i] # <<>> /\ file.hist[i] \notin disk
    /\ last.ret # <<>>
    /\ Len(last.ret) < Len(file.hist)

----------------------------------------------------------------------------
(* C16 *)

GalleryReturned == last.op = "get_history_gallery" /\ ~last.raised

\* the configured max_gallery_display when the gallery was built
GalleryCap == max_gallery_display(load_settings(last.pre))

\* the view of a filter mode: the stored list of the mode, restricted to the
\* paths that exist
ViewOf(filter_mode) ==
    LET settings == load_settings(last.pre)
        stored == IF filter_mode = "favorites" THEN settings.fav ELSE settings.hist
    IN  SelectSeq(stored, LAMBDA p : p = <<>> \/ p \in disk)

Opens(p) == p \in disk /\ p \notin NotImages

\* the images of a gallery, in its order
ImagesOf(gallery) == [i \in 1..Len(gallery) |-> gallery[i].image]

Starred(item) == IsPrefix(StarMarker, item.caption)

----------------------------------------------------------------------------
(* C17 *)

\* C17: for every filter mode, every stored settings document and every
\* index i smaller than the length of the gallery of that mode,
\* select_from_gallery with index i and the same mode returns the path of
\* the image at position i of the gallery.
C17_SelectionAligned ==
    (last.op = "select_from_gallery" /\ ~last.raised)
        => LET gallery == get_history_gallery(last.pre, disk, last.arg.mode) IN
           last.arg.index < Len(gallery)
               => last.ret = gallery[last.arg.index + 1].image

----------------------------------------------------------------------------
(* The path check of an image-path field *)

CheckImagePath ==
    \E path \in Inputs :
        /\ last' = Answered("check_image_path", path, FALSE, check_image_path(path, disk))
        /\ UNCHANGED <<file, disk, writable, calls, concVars, reqVars, formVars>>

NextCheck == CheckImagePath \/ DeleteFile

SpecCheck == Init /\ [][NextCheck]_vars

----------------------------------------------------------------------------
(* C19 *)

\* C19: check_image_path(path) returns a non-empty warning when path is not
\* blank and does not exist on disk, and the empty string when path is blank
\* or exists.
C19_WarnsOnMissingPath ==
    last.op = "check_image_path"
        => IF ~IsBlank(last.arg) /\ ~PathExists(last.arg, disk)
           THEN last.ret # <<>>
           ELSE last.ret = <<>>

----------------------------------------------------------------------------
(* The rows of the form under add, remove and prompt-info upload *)

ShowImageRow == show_image_row(form.visible_count)

HideImageRow == hide_image_row(form.visible_count)

LoadPromptInfo == \E pfile \in PromptFiles : load_prompt_info(pfile)

NextRows == ShowImageRow \/ HideImageRow \/ LoadPromptInfo

SpecRows == Init /\ [][NextRows]_vars

----------------------------------------------------------------------------
(* C18 *)

\* C18: visible_count stays between 1 and 10 after any sequence of
\* show_image_row, hide_image_row and load_prompt_info events, for every
\* prompt descriptor file; the rows 0..visible_count-1 are exactly the
\* visible ones.
C18_VisibleCountInRange ==
    /\ form.visible_count >= 1
    /\ form.visible_count <= MaxRows
    /\ form.rows = 0..(form.visible_count - 1)

====
